---- MODULE Spec2Model ----
(***************************************************************************)
(* Verification model of refactored-utils:                                 *)
(*   - CacheService            (src/src/services/cache_service.py)         *)
(*   - CommandConfigRepository (src/src/utils/config.py)                   *)
(*   - Application command synchronisation (src/src/core/application.py)   *)
(*   - ConfigManager environment validation (src/src/utils/config.py)      *)
(* Each subsystem has its own specification over the variables of this     *)
(* module: SpecCache (one caller) and SpecTasks (concurrent tasks) for the *)
(* cache, SpecStore (one caller) and SpecRace (concurrent updates) for the *)
(* repository, SpecSync for the synchronisation, SpecEnv for the           *)
(* environment validation.                                                 *)
(***************************************************************************)
EXTENDS Integers, Sequences, FiniteSets, TLC

VARIABLES
    now,        \* wall clock (datetime.now()), in ticks of 1/TicksPerSecond s
    cache,      \* CacheService._cache : key -> [value, expires]
    cacheRet,   \* the last cache operation and what it returned
    latest,     \* history: per key, the latest set() not yet invalidated
    cacheOps,   \* number of cache operations performed
    lock,       \* CacheService._lock: the task holding it, or "free"
    tasks,      \* concurrent callers: task -> its call and where it stands
    serial      \* history: the map after the operations so far, applied
                \* whole and one after the other in the order they took the lock

cacheVars == <<cache, cacheRet, latest, cacheOps, lock, tasks, serial>>

VARIABLES
    primary,    \* content of the file at config_path
    backups,    \* backup_dir: timestamp (second) -> content of that backup file
    storeRet,   \* the last repository operation, its arguments and outcome
    taken,      \* history: second -> config when backup() was last called then
    clobbered,  \* history: seconds whose backup file was rewritten afterwards
    pristine,   \* history: constructed with no backing file, file not removed
    scope,      \* which bound applies to this run of the repository:
                \*   "wide": one call, on an arbitrary file with arbitrary
                \*           arguments, then "read": one get, then "end"
                \*   "deep": a sequence of update, backup and restore calls
                \*           over time on a new repository, with lists of
                \*           command names and a writable backup directory
                \*   "none": the repository is not called
                \*   "race": two concurrent update calls, statement by
                \*           statement, on a new repository
                \*   "sync": the synchroniser reads the repository; between
                \*           two runs one update call, then "edited"
    storeOps    \* number of repository operations performed

storeVars == <<primary, backups, storeRet, taken, clobbered, pristine, scope,
               storeOps>>

VARIABLES
    catalog,    \* bot.tree: names of the global (guild=None) commands
    treeGuild,  \* bot.tree: guild id -> names of its guild-scoped commands
    pushed,     \* the registry's side: guild id -> names last synced to it
    pushedGlobal,  \* the registry's side: TRUE while global commands are synced
    approved,   \* get_approved_guilds(): the approved guild ids, in order
    live,       \* guild ids bot.get_guild can resolve
    syncPc,     \* _setup_commands: "idle", "guilds", "global", "done", "failed"
    idx,        \* _setup_commands: position in approved
    calls,      \* the calls made on bot.tree during the current run
    syncRet,    \* the last _sync_guild_commands call and its outcome
    runs        \* number of on_ready events handled

syncVars == <<catalog, treeGuild, pushed, pushedGlobal, approved, live, syncPc,
              idx, calls, syncRet, runs>>

VARIABLES
    environ,    \* os.environ: variable name -> its value, or Unset
    dotenv,     \* the .env file: variable name -> its value, or Unset
    facade      \* the last construction of ConfigManager and its outcome

envVars == <<environ, dotenv, facade>>

VARIABLES
    updaters,   \* concurrent callers of update_commands_for_guild: caller ->
                \* its arguments, its local config and where it stands
    lastWriter  \* history: the caller whose json.dump finished last, or "none"

raceVars == <<updaters, lastWriter>>

vars == <<now, cacheVars, storeVars, syncVars, envVars, raceVars>>

----------------------------------------------------------------------------
(* Bounds *)

TicksPerSecond == 2
MaxTime == 4
MaxTtl == 2
MaxCacheOps == 4
MaxTaskOps == 3
MaxTaskTime == 2

MaxStoreTime == 2
MaxDeepOps == 4
MaxCmds == 2
MaxDeepCmds == 1
MaxForeignCmds == 1
MaxApproved == 2
MaxRuns == 2

Keys == {"k1", "k2"}
Values == {"v1", "v2"}
Ttls == 0 .. MaxTtl
Tasks == {"t1", "t2"}
\* what the concurrent tasks pass: a ttl that has run out at once and one
\* that lasts a second; every task sets a value of its own
TaskTtls == {0, 1}
TaskValue == [t \in Tasks |-> IF t = "t1" THEN "v1" ELSE "v2"]

----------------------------------------------------------------------------
(* CacheService *)

NoEntry == [set |-> FALSE, value |-> "none", at |-> 0, ttl |-> 0]
NoCacheRet == [op |-> "none", key |-> "none", hit |-> FALSE, value |-> "none",
               at |-> 0]

\* timedelta(seconds=ttl) on the tick clock
Timedelta(ttl) == ttl * TicksPerSecond

\* "datetime.now() >= cache_entry['expires']"
ExpiredBroken(entry, t) == t > entry.expires
Expired(entry, t) == t >= entry.expires

\* "datetime.now() + timedelta(seconds=ttl)"
ExpiresAt(t, ttl) == t + Timedelta(ttl)

\* the map without key k ("del self._cache[key]")
DelKeyClears(c, k) == [x \in {} |-> c[x]]
DelKey(c, k) == [x \in DOMAIN c \ {k} |-> c[x]]

\* the map with c[k] = e ("self._cache[key] = {...}")
PutKey(c, k, e) == [x \in DOMAIN c \cup {k} |-> IF x = k THEN e ELSE c[x]]

\* a task that is not inside a cache operation
IdleTask == [pc |-> "idle", op |-> "none", key |-> "none", value |-> "none",
             ttl |-> 0, hit |-> FALSE, out |-> "none", at |-> 0,
             expHit |-> FALSE, expOut |-> "none"]

CacheInit ==
    /\ cache = [x \in {} |-> [value |-> "none", expires |-> 0]]
    /\ cacheRet = NoCacheRet
    /\ latest = [k \in Keys |-> NoEntry]
    /\ cacheOps = 0
    /\ lock = "free"
    /\ tasks = [t \in Tasks |-> IdleTask]
    /\ serial = [x \in {} |-> [value |-> "none", expires |-> 0]]

\* async def get(self, key)
Get(k) ==
    /\ cacheOps < MaxCacheOps
    /\ cacheOps' = cacheOps + 1
    /\ IF k \notin DOMAIN cache
         THEN /\ cache' = cache
              /\ cacheRet' = [op |-> "get", key |-> k, hit |-> FALSE,
                              value |-> "none", at |-> now]
         ELSE IF Expired(cache[k], now)
                THEN /\ cache' = DelKey(cache, k)
                     /\ cacheRet' = [op |-> "get", key |-> k, hit |-> FALSE,
                                     value |-> "none", at |-> now]
                ELSE /\ cache' = cache
                     /\ cacheRet' = [op |-> "get", key |-> k, hit |-> TRUE,
                                     value |-> cache[k].value, at |-> now]
    /\ UNCHANGED <<now, latest>>

\* async def set(self, key, value, ttl=300)
Set(k, v, ttl) ==
    /\ cacheOps < MaxCacheOps
    /\ cacheOps' = cacheOps + 1
    /\ cache' = PutKey(cache, k, [value |-> v, expires |-> ExpiresAt(now, ttl)])
    /\ cacheRet' = [op |-> "set", key |-> k, hit |-> FALSE, value |-> v,
                    at |-> now]
    /\ latest' = [latest EXCEPT ![k] =
                    [set |-> TRUE, value |-> v, at |-> now, ttl |-> ttl]]
    /\ UNCHANGED now

\* async def invalidate(self, key)
Invalidate(k) ==
    /\ cacheOps < MaxCacheOps
    /\ cacheOps' = cacheOps + 1
    /\ cache' = IF k \in DOMAIN cache THEN DelKey(cache, k) ELSE cache
    /\ cacheRet' = [op |-> "invalidate", key |-> k, hit |-> FALSE,
                    value |-> "none", at |-> now]
    /\ latest' = [latest EXCEPT ![k] = NoEntry]
    /\ UNCHANGED now

\* one caller at a time: the lock is free before and after every operation
CacheGet ==
    (\E k \in Keys : Get(k))
    /\ UNCHANGED <<lock, tasks, serial, storeVars, syncVars, envVars, raceVars>>
CacheSet ==
    (\E k \in Keys, v \in Values, ttl \in Ttls : Set(k, v, ttl))
    /\ UNCHANGED <<lock, tasks, serial, storeVars, syncVars, envVars, raceVars>>
CacheInvalidate ==
    (\E k \in Keys : Invalidate(k))
    /\ UNCHANGED <<lock, tasks, serial, storeVars, syncVars, envVars, raceVars>>

----------------------------------------------------------------------------
(* CacheService called by concurrent tasks: every operation is             *)
(* "async with self._lock: <body>", taken statement by statement           *)

\* asyncio.Lock: acquire() returns when no task holds the lock
LockFreeAlways(l) == TRUE
LockFree(l) == l = "free"

\* the whole operation applied to map c at time t: new map and return value
SerialApply(c, call, t) ==
    IF call.op = "get"
      THEN IF call.key \notin DOMAIN c
             THEN [cache |-> c, hit |-> FALSE, out |-> "none"]
           ELSE IF Expired(c[call.key], t)
             THEN [cache |-> DelKey(c, call.key), hit |-> FALSE, out |-> "none"]
           ELSE [cache |-> c, hit |-> TRUE, out |-> c[call.key].value]
    ELSE IF call.op = "set"
      THEN [cache |-> PutKey(c, call.key, [value |-> call.value,
                                           expires |-> ExpiresAt(t, call.ttl)]),
            hit |-> FALSE, out |-> "none"]
    ELSE [cache |-> IF call.key \in DOMAIN c THEN DelKey(c, call.key) ELSE c,
          hit |-> FALSE, out |-> "none"]

\* a task calls get, set or invalidate
TaskCall(t, op, k, v, ttl) ==
    /\ tasks[t].pc = "idle"
    /\ cacheOps < MaxTaskOps
    /\ cacheOps' = cacheOps + 1
    /\ tasks' = [tasks EXCEPT ![t] =
                   [IdleTask EXCEPT !.pc = "wait", !.op = op, !.key = k,
                                    !.value = v, !.ttl = ttl]]
    /\ UNCHANGED <<now, cache, cacheRet, latest, lock, serial>>

\* "async with self._lock:" entered
TaskAcquire(t) ==
    /\ tasks[t].pc = "wait"
    /\ LockFree(lock)
    /\ lock' = t
    /\ tasks' = [tasks EXCEPT ![t].pc = "body"]
    /\ UNCHANGED <<now, cache, cacheRet, latest, cacheOps, serial>>

\* the body up to its return, or up to "del self._cache[key]" in get
TaskBody(t) ==
    LET call == tasks[t]
        k == call.key
        exp == SerialApply(serial, call, now)
        done(hit, out) == [call EXCEPT !.pc = "exit", !.hit = hit, !.out = out,
                                       !.at = now, !.expHit = exp.hit,
                                       !.expOut = exp.out]
    IN
    /\ call.pc = "body"
    /\ serial' = exp.cache
    /\ IF call.op = "get"
         THEN /\ latest' = latest
              /\ cache' = cache
              /\ IF k \notin DOMAIN cache
                   THEN tasks' = [tasks EXCEPT ![t] = done(FALSE, "none")]
                 ELSE IF Expired(cache[k], now)
                   THEN tasks' = [tasks EXCEPT ![t] =
                                    [done(FALSE, "none") EXCEPT !.pc = "delete"]]
                 ELSE tasks' = [tasks EXCEPT ![t] = done(TRUE, cache[k].value)]
       ELSE IF call.op = "set"
         THEN /\ cache' = PutKey(cache, k, [value |-> call.value,
                                            expires |-> ExpiresAt(now, call.ttl)])
              /\ latest' = [latest EXCEPT ![k] =
                              [set |-> TRUE, value |-> call.value, at |-> now,
                               ttl |-> call.ttl]]
              /\ tasks' = [tasks EXCEPT ![t] = done(FALSE, "none")]
       ELSE   /\ cache' = IF k \in DOMAIN cache THEN DelKey(cache, k) ELSE cache
              /\ latest' = [latest EXCEPT ![k] = NoEntry]
              /\ tasks' = [tasks EXCEPT ![t] = done(FALSE, "none")]
    /\ UNCHANGED <<now, cacheRet, cacheOps, lock>>

\* get: "del self._cache[key]; return None" (del raises KeyError when the
\* key is no longer in the map)
TaskDelete(t) ==
    /\ tasks[t].pc = "delete"
    /\ IF tasks[t].key \in DOMAIN cache
         THEN /\ cache' = DelKey(cache, tasks[t].key)
              /\ tasks' = [tasks EXCEPT ![t].pc = "exit"]
         ELSE /\ cache' = cache
              /\ tasks' = [tasks EXCEPT ![t].pc = "exit", ![t].out = "KeyError"]
    /\ UNCHANGED <<now, cacheRet, latest, cacheOps, lock, serial>>

\* the "async with" block is left: the lock is released, the call returns
TaskRelease(t) ==
    /\ tasks[t].pc = "exit"
    /\ lock' = "free"
    /\ cacheRet' = [op |-> tasks[t].op, key |-> tasks[t].key,
                    hit |-> tasks[t].hit, value |-> tasks[t].out,
                    at |-> tasks[t].at]
    /\ tasks' = [tasks EXCEPT ![t] = IdleTask]
    /\ UNCHANGED <<now, cache, latest, cacheOps, serial>>

TaskCalls ==
    (\E t \in Tasks, op \in {"get", "set", "invalidate"}, k \in Keys :
        IF op = "set"
          THEN \E ttl \in TaskTtls : TaskCall(t, op, k, TaskValue[t], ttl)
          ELSE TaskCall(t, op, k, "none", 0))
    /\ UNCHANGED <<storeVars, syncVars, envVars, raceVars>>
TaskAcquires ==
    (\E t \in Tasks : TaskAcquire(t))
    /\ UNCHANGED <<storeVars, syncVars, envVars, raceVars>>
TaskBodies ==
    (\E t \in Tasks : TaskBody(t))
    /\ UNCHANGED <<storeVars, syncVars, envVars, raceVars>>
TaskDeletes ==
    (\E t \in Tasks : TaskDelete(t))
    /\ UNCHANGED <<storeVars, syncVars, envVars, raceVars>>
TaskReleases ==
    (\E t \in Tasks : TaskRelease(t))
    /\ UNCHANGED <<storeVars, syncVars, envVars, raceVars>>

\* the clock advances while tasks run
TaskTick ==
    /\ now < MaxTaskTime
    /\ now' = now + 1
    /\ UNCHANGED <<cacheVars, storeVars, syncVars, envVars, raceVars>>

----------------------------------------------------------------------------
(* JSON documents *)

GuildIds == {"111", "222"}

\* elements a caller can put in a commands list: two command names, a
\* non-string that JSON can encode (an int) and one that it cannot (a set)
CommandNames == {"ping", "stats"}
IntElem == "int:7"
SetElem == "set:{1}"
Elems == CommandNames \cup {IntElem, SetElem}

IsStr(e) == e \in CommandNames

SeqsUpTo(S, n) == UNION {[1 .. m -> S] : m \in 0 .. n}

\* json.dump can encode every element of the list
Encodable(cmds) == \A i \in 1 .. Len(cmds) : cmds[i] # SetElem

EmptyMap == [g \in {} |-> <<>>]

\* kind: "missing"  no file at the path
\*       "corrupt"  not parseable as JSON
\*       "scalar"   a number, true, false or null
\*       "text"     a string without the substring guilds; "textG" with it
\*       "list"     a list without the element "guilds"; "listG" with it
\*       "objNoGuilds"   an object without the key guilds
\*       "objBadGuilds"  an object whose guilds is not an object
\*       "obj"      an object whose guilds is an object
\* extra: number of other top-level keys of an object
Doc(kind, guilds, extra) == [kind |-> kind, guilds |-> guilds, extra |-> extra]

MissingFile == Doc("missing", EmptyMap, 0)
CorruptFile == Doc("corrupt", EmptyMap, 0)

\* {"guilds": {}}
DefaultConfig == Doc("obj", EmptyMap, 0)

GuildMaps(n) ==
    UNION {[S -> SeqsUpTo({"ping"}, n)] : S \in SUBSET GuildIds}

\* files the repository did not write itself
ForeignDocs ==
    {Doc(k, EmptyMap, 0) :
        k \in {"corrupt", "scalar", "text", "textG", "list", "listG"}}
    \cup {Doc(k, EmptyMap, e) : k \in {"objNoGuilds", "objBadGuilds"}, e \in 0 .. 1}
    \cup {Doc("obj", m, e) : m \in GuildMaps(MaxForeignCmds), e \in 0 .. 1}

\* the commands argument: a list, or something that is not a list
CommandArgs ==
    {[isList |-> TRUE, items |-> c] : c \in SeqsUpTo(Elems, MaxCmds)}
    \cup {[isList |-> FALSE, items |-> <<>>]}

\* lists of command names
PlainArgs ==
    {[isList |-> TRUE, items |-> c] : c \in SeqsUpTo(CommandNames, MaxDeepCmds)}

\* an allow-list is emptied, or set to the one command the cogs define
SyncArgs == {[isList |-> TRUE, items |-> c] : c \in {<<>>, <<"ping">>}}

ArgsIn(sc) ==
    IF sc = "wide" THEN CommandArgs ELSE IF sc = "sync" THEN SyncArgs ELSE PlainArgs
ForeignIn(sc) == IF sc = "wide" THEN ForeignDocs ELSE {}
IoFailsIn(sc) == IF sc = "wide" THEN BOOLEAN ELSE {FALSE}
MaxTimeIn(sc) ==
    IF sc = "deep" THEN MaxStoreTime ELSE IF sc = "none" THEN MaxTime ELSE 0

Seconds == 0 .. (MaxStoreTime \div TicksPerSecond)

\* datetime.now().strftime("%Y%m%d_%H%M%S")
Timestamp(t) == t \div TicksPerSecond

----------------------------------------------------------------------------
(* CommandConfigRepository *)

\* _read_config: json.load of the file, or ConfigurationError
ReadConfig(file) ==
    IF file.kind \in {"missing", "corrupt"}
      THEN [ok |-> FALSE, doc |-> file]
      ELSE [ok |-> TRUE, doc |-> file]

\* _write_config: open("w") truncates, json.dump writes; a value json cannot
\* encode leaves an unparseable file and raises ConfigurationError
DocEncodable(doc) ==
    \A g \in DOMAIN doc.guilds : Encodable(doc.guilds[g])

WriteConfig(doc) ==
    IF DocEncodable(doc)
      THEN [ok |-> TRUE, file |-> doc]
      ELSE [ok |-> FALSE, file |-> CorruptFile]

\* get_commands_for_guild: config.get("guilds", {}).get(guild_id, [])
GetCommandsForGuildStrict(file, g) ==
    IF file.kind = "obj" /\ g \in DOMAIN file.guilds
      THEN [status |-> "ok", value |-> file.guilds[g]]
      ELSE [status |-> "KeyError", value |-> <<>>]
GetCommandsForGuild(file, g) ==
    LET r == ReadConfig(file) IN
    IF ~r.ok THEN [status |-> "ConfigurationError", value |-> <<>>]
    ELSE IF r.doc.kind = "obj"
      THEN [status |-> "ok",
            value |-> IF g \in DOMAIN r.doc.guilds THEN r.doc.guilds[g] ELSE <<>>]
    ELSE IF r.doc.kind = "objNoGuilds"
      THEN [status |-> "ok", value |-> <<>>]
    ELSE [status |-> "AttributeError", value |-> <<>>]

\* the backup file written by backup(), if it writes one
\* (ioFails: the backup file cannot be opened for writing)
BackupWrites(file, ioFails) == ReadConfig(file).ok /\ ~ioFails

\* backup() ends in "except Exception: logging.error(...)": nothing is re-raised
BackupRaisesOnFailure(file, ioFails) == ~BackupWrites(file, ioFails)
BackupRaises(file, ioFails) == FALSE

\* backup_dir after backup()
BackupDirEmptySnapshot(dir, file, t, ioFails) ==
    IF BackupWrites(file, ioFails)
      THEN [s \in DOMAIN dir \cup {Timestamp(t)} |->
               IF s = Timestamp(t) THEN DefaultConfig ELSE dir[s]]
      ELSE dir
BackupDir(dir, file, t, ioFails) ==
    IF BackupWrites(file, ioFails)
      THEN [s \in DOMAIN dir \cup {Timestamp(t)} |->
               IF s = Timestamp(t) THEN ReadConfig(file).doc ELSE dir[s]]
      ELSE dir

\* "isinstance(commands, list)"
ValidCommands(arg) == arg.isList

\* update_commands_for_guild after its backup: outcome and new primary file
SetGuildReversed(m, g, cmds) ==
    [x \in DOMAIN m \cup {g} |->
        IF x = g THEN [i \in 1 .. Len(cmds) |-> cmds[Len(cmds) + 1 - i]] ELSE m[x]]
SetGuild(m, g, cmds) == [x \in DOMAIN m \cup {g} |-> IF x = g THEN cmds ELSE m[x]]

ApplyUpdateFreshDoc(file, g, cmds) ==
    [status |-> IF ReadConfig(file).ok THEN "ok" ELSE "ConfigurationError",
     file |-> IF ReadConfig(file).ok
                THEN Doc("obj", SetGuild(EmptyMap, g, cmds), 0) ELSE file]
ApplyUpdate(file, g, cmds) ==
    LET r == ReadConfig(file) IN
    IF ~r.ok THEN [status |-> "ConfigurationError", file |-> file]
    ELSE IF r.doc.kind \in {"obj", "objNoGuilds"}
      THEN LET old == IF r.doc.kind = "obj" THEN r.doc.guilds ELSE EmptyMap
               w == WriteConfig(Doc("obj", SetGuild(old, g, cmds), r.doc.extra))
           IN  [status |-> IF w.ok THEN "ok" ELSE "ConfigurationError",
                file |-> w.file]
    ELSE [status |-> "TypeError", file |-> file]

\* restore(backup_path), given the content found at backup_path: outcome
\* and new primary file
ApplyRestoreNoWrite(file, content) ==
    [status |-> IF content.kind = "obj" THEN "true" ELSE "false", file |-> file]
ApplyRestore(file, content) ==
    IF content.kind = "missing"
      THEN [status |-> "FileNotFoundError", file |-> file]
    ELSE IF content.kind \in {"corrupt", "text", "list", "objNoGuilds", "objBadGuilds"}
      THEN [status |-> "false", file |-> file]
    ELSE IF content.kind = "scalar"
      THEN [status |-> "TypeError", file |-> file]
    ELSE IF content.kind \in {"textG", "listG"}
      THEN [status |-> "AttributeError", file |-> file]
    ELSE LET w == WriteConfig(content)
         IN  [status |-> IF w.ok THEN "true" ELSE "false", file |-> w.file]

NoStoreRet ==
    [op |-> "none", guild |-> "none", arg |-> [isList |-> FALSE, items |-> <<>>],
     status |-> "none", value |-> <<>>, ioFails |-> FALSE, path |-> -1,
     content |-> MissingFile]

\* __init__ / _ensure_config_exists: an absent file is created with
\* {"guilds": {}}, an existing file is left as it is
StoreInit ==
    /\ scope \in {"wide", "deep"}
    /\ \E existing \in ForeignIn(scope) \cup {MissingFile} :
          /\ primary = IF existing.kind = "missing" THEN DefaultConfig ELSE existing
          /\ pristine = (existing.kind = "missing")
    /\ backups = EmptyMap
    /\ storeRet = NoStoreRet
    /\ taken = EmptyMap
    /\ clobbered = {}
    /\ storeOps = 0

\* one more call of the repository, within the scope of the run
StoreStep(isGet) ==
    /\ \/ scope = "wide" /\ scope' = (IF isGet THEN "end" ELSE "read")
       \/ scope = "read" /\ isGet /\ scope' = "end"
       \/ scope = "deep" /\ ~isGet /\ storeOps < MaxDeepOps /\ scope' = scope
       \/ /\ scope = "sync" /\ ~isGet /\ syncPc \in {"done", "failed"}
          /\ scope' = "edited"
    /\ storeOps' = storeOps + 1

\* get_commands_for_guild(guild_id)
GetCommands(g) ==
    /\ StoreStep(TRUE)
    /\ LET r == GetCommandsForGuild(primary, g) IN
         storeRet' = [NoStoreRet EXCEPT !.op = "get", !.guild = g,
                        !.status = r.status, !.value = r.value]
    /\ UNCHANGED <<now, primary, backups, taken, clobbered, pristine>>

\* update_commands_for_guild(guild_id, commands)
UpdateCommands(g, arg, ioFails) ==
    /\ StoreStep(FALSE)
    /\ IF ~ValidCommands(arg)
         THEN /\ storeRet' = [NoStoreRet EXCEPT !.op = "update", !.guild = g,
                                !.arg = arg, !.status = "ConfigurationError",
                                !.ioFails = ioFails]
              /\ UNCHANGED <<primary, backups, clobbered>>
         ELSE IF BackupRaises(primary, ioFails)
         THEN /\ storeRet' = [NoStoreRet EXCEPT !.op = "update", !.guild = g,
                                !.arg = arg, !.status = "Exception",
                                !.ioFails = ioFails]
              /\ UNCHANGED <<primary, backups, clobbered>>
         ELSE LET u == ApplyUpdate(primary, g, arg.items) IN
              /\ backups' = BackupDir(backups, primary, now, ioFails)
              /\ clobbered' = IF BackupWrites(primary, ioFails)
                                   /\ Timestamp(now) \in DOMAIN taken
                                THEN clobbered \cup {Timestamp(now)}
                                ELSE clobbered
              /\ primary' = u.file
              /\ storeRet' = [NoStoreRet EXCEPT !.op = "update", !.guild = g,
                                !.arg = arg, !.status = u.status,
                                !.ioFails = ioFails]
    /\ UNCHANGED <<now, taken, pristine>>

\* backup()
Backup(ioFails) ==
    /\ StoreStep(FALSE)
    /\ backups' = BackupDir(backups, primary, now, ioFails)
    /\ IF BackupWrites(primary, ioFails)
         THEN /\ taken' = [s \in DOMAIN taken \cup {Timestamp(now)} |->
                             IF s = Timestamp(now) THEN primary ELSE taken[s]]
              /\ clobbered' = clobbered \ {Timestamp(now)}
         ELSE UNCHANGED <<taken, clobbered>>
    /\ storeRet' = [NoStoreRet EXCEPT !.op = "backup",
                      !.status = IF BackupRaises(primary, ioFails)
                                   THEN "Exception" ELSE "ok",
                      !.ioFails = ioFails]
    /\ UNCHANGED <<now, primary, pristine>>

\* restore(backup_path) with the content found at backup_path
RestoreFrom(path, content) ==
    /\ StoreStep(FALSE)
    /\ LET r == ApplyRestore(primary, content) IN
         /\ primary' = r.file
         /\ storeRet' = [NoStoreRet EXCEPT !.op = "restore", !.status = r.status,
                           !.path = path, !.content = content]
    /\ UNCHANGED <<now, backups, taken, clobbered, pristine>>

StoreGet ==
    (\E g \in GuildIds : GetCommands(g))
    /\ UNCHANGED <<cacheVars, syncVars, envVars, raceVars>>
StoreUpdate ==
    (\E g \in GuildIds, arg \in ArgsIn(scope), ioFails \in IoFailsIn(scope) :
        UpdateCommands(g, arg, ioFails))
    /\ UNCHANGED <<cacheVars, syncVars, envVars, raceVars>>
StoreBackup ==
    (\E ioFails \in IoFailsIn(scope) : Backup(ioFails))
    /\ UNCHANGED <<cacheVars, syncVars, envVars, raceVars>>
\* restore of a backup file the repository wrote (or of a path with no file)
StoreRestoreBackup ==
    (\E s \in Seconds :
        RestoreFrom(s, IF s \in DOMAIN backups THEN backups[s] ELSE MissingFile))
    /\ UNCHANGED <<cacheVars, syncVars, envVars, raceVars>>
\* restore of a file that was put there by someone else
StoreRestoreForeign ==
    (\E d \in ForeignIn(scope) : RestoreFrom(-1, d))
    /\ UNCHANGED <<cacheVars, syncVars, envVars, raceVars>>
\* somebody removes the configuration file (the FileNotFoundError that
\* _read_config handles)
StoreFileRemoved ==
    /\ scope = "wide"
    /\ primary.kind # "missing"
    /\ StoreStep(FALSE)
    /\ primary' = MissingFile
    /\ pristine' = FALSE
    /\ storeRet' = [NoStoreRet EXCEPT !.op = "removed"]
    /\ UNCHANGED <<now, backups, taken, clobbered>>
    /\ UNCHANGED <<cacheVars, syncVars, envVars, raceVars>>

----------------------------------------------------------------------------
(* CommandConfigRepository.update_commands_for_guild called concurrently:  *)
(* the method holds no lock, so its statements interleave                  *)

Updaters == {"u1", "u2"}
Other(u) == IF u = "u1" THEN "u2" ELSE "u1"

\* a caller that is not inside update_commands_for_guild
IdleUpdater == [pc |-> "idle", guild |-> "none", cmds |-> <<>>,
                config |-> MissingFile, status |-> "none", sawOther |-> FALSE,
                dirty |-> FALSE]

RaceIdle ==
    /\ updaters = [u \in Updaters |-> IdleUpdater]
    /\ lastWriter = "none"

\* "if 'guilds' not in config: config['guilds'] = {}
\*  config['guilds'][guild_id] = commands": the caller's local config
UpdatedDocDropsOthers(doc, g, cmds) ==
    Doc("obj", SetGuild(EmptyMap, g, cmds), doc.extra)
UpdatedDoc(doc, g, cmds) ==
    Doc("obj",
        SetGuild(IF doc.kind = "obj" THEN doc.guilds ELSE EmptyMap, g, cmds),
        doc.extra)

\* the call starts: "if not isinstance(commands, list): raise"
RaceCall(u, g, arg) ==
    /\ scope = "race"
    /\ updaters[u].pc = "idle"
    /\ updaters' = [updaters EXCEPT ![u] =
          IF ValidCommands(arg)
            THEN [IdleUpdater EXCEPT !.pc = "backup", !.guild = g,
                                     !.cmds = arg.items]
            ELSE [IdleUpdater EXCEPT !.pc = "done", !.guild = g,
                                     !.status = "ConfigurationError"]]
    /\ UNCHANGED <<now, storeVars, lastWriter>>

\* "self.backup()"
RaceBackup(u) ==
    /\ updaters[u].pc = "backup"
    /\ backups' = BackupDir(backups, primary, now, FALSE)
    /\ updaters' = [updaters EXCEPT ![u].pc = "read"]
    /\ UNCHANGED <<now, primary, storeRet, taken, clobbered, pristine, scope,
                   storeOps, lastWriter>>

\* "config = self.get_all()" and the change of the local config
RaceRead(u) ==
    LET r == ReadConfig(primary)
        me == updaters[u]
    IN
    /\ me.pc = "read"
    /\ updaters' = [updaters EXCEPT ![u] =
          IF ~r.ok
            THEN [me EXCEPT !.pc = "done", !.status = "ConfigurationError"]
          ELSE IF r.doc.kind \in {"obj", "objNoGuilds"}
            THEN [me EXCEPT !.pc = "open",
                            !.config = UpdatedDoc(r.doc, me.guild, me.cmds),
                            !.sawOther = (lastWriter = Other(u))]
          ELSE [me EXCEPT !.pc = "done", !.status = "TypeError"]]
    /\ UNCHANGED <<now, storeVars, lastWriter>>

\* _write_config: "with self.config_path.open('w') as f": the file is
\* truncated
RaceOpen(u) ==
    /\ updaters[u].pc = "open"
    /\ primary' = CorruptFile
    /\ updaters' = [updaters EXCEPT ![u].pc = "dump"]
    /\ UNCHANGED <<now, backups, storeRet, taken, clobbered, pristine, scope,
                   storeOps, lastWriter>>

\* _write_config: "json.dump(config, f, indent=2)" and the return.  When the
\* other caller has written into the file since this caller opened it
\* (dirty), the file holds this caller's config or a mix that does not parse.
RaceDump(u, mixed) ==
    LET me == updaters[u]
        w == WriteConfig(me.config)
    IN
    /\ me.pc = "dump"
    /\ mixed => me.dirty
    /\ primary' = IF mixed THEN CorruptFile ELSE w.file
    /\ lastWriter' = u
    /\ updaters' = [x \in Updaters |->
          IF x = u
            THEN [me EXCEPT !.pc = "done",
                            !.status = IF w.ok THEN "ok" ELSE "ConfigurationError"]
          ELSE IF updaters[x].pc = "dump"
            THEN [updaters[x] EXCEPT !.dirty = TRUE]
          ELSE updaters[x]]
    /\ UNCHANGED <<now, backups, storeRet, taken, clobbered, pristine, scope,
                   storeOps>>

RaceCalls ==
    (\E u \in Updaters, g \in GuildIds, arg \in ArgsIn(scope) : RaceCall(u, g, arg))
    /\ UNCHANGED <<cacheVars, syncVars, envVars>>
RaceBackups ==
    (\E u \in Updaters : RaceBackup(u))
    /\ UNCHANGED <<cacheVars, syncVars, envVars>>
RaceReads ==
    (\E u \in Updaters : RaceRead(u))
    /\ UNCHANGED <<cacheVars, syncVars, envVars>>
RaceOpens ==
    (\E u \in Updaters : RaceOpen(u))
    /\ UNCHANGED <<cacheVars, syncVars, envVars>>
RaceDumps ==
    (\E u \in Updaters, mixed \in BOOLEAN : RaceDump(u, mixed))
    /\ UNCHANGED <<cacheVars, syncVars, envVars>>

----------------------------------------------------------------------------
(* ConfigManager: the required environment variables *)

\* "self.required_env_vars = [...]"
RequiredVars == <<"APPROVED_GUILDS", "TOKEN", "DB">>
VarNames == {RequiredVars[i] : i \in 1 .. Len(RequiredVars)}

\* a variable is not set at all, is set to the empty string, or has a value
Unset == "<unset>"
EnvValues == {Unset, "", "value"}

\* load_dotenv(): a variable of the .env file is put into the environment
\* unless the environment already has it
LoadDotenv(env, file) ==
    [v \in VarNames |-> IF env[v] # Unset THEN env[v] ELSE file[v]]

\* "not os.getenv(var)"
NotGetenv(env, v) == env[v] = Unset \/ env[v] = ""

\* "[var for var in required_vars if not os.getenv(var)]"
MissingVarsFirstOnly(env) ==
    LET Missing(v) == NotGetenv(env, v)
        q == SelectSeq(RequiredVars, Missing)
    IN  IF q = <<>> THEN q ELSE <<Head(q)>>
MissingVars(env) ==
    LET Missing(v) == NotGetenv(env, v) IN SelectSeq(RequiredVars, Missing)

NoFacade == [status |-> "none", missing |-> <<>>]

EnvIdle ==
    /\ environ = [v \in VarNames |-> "value"]
    /\ dotenv = [v \in VarNames |-> Unset]
    /\ facade = NoFacade

\* the process starts with some environment and some .env file
EnvInit ==
    /\ environ \in [VarNames -> EnvValues]
    /\ dotenv \in [VarNames -> EnvValues]
    /\ facade = NoFacade

\* ConfigManager(): _setup_env_vars, then _setup_command_config_repo
\* (repoFails: the command configuration file cannot be created).  The
\* message of the error is the missing names joined with ", "; no name
\* contains a comma, so the message is kept as the sequence of names.
Construct(repoFails) ==
    LET loaded == LoadDotenv(environ, dotenv)
        missing == MissingVars(loaded)
    IN
    /\ facade.status = "none"
    /\ environ' = loaded
    /\ facade' = IF missing # <<>>
                   THEN [status |-> "MissingVariables", missing |-> missing]
                 ELSE IF repoFails
                   THEN [status |-> "WriteFailed", missing |-> <<>>]
                 ELSE [status |-> "ok", missing |-> <<>>]
    /\ UNCHANGED dotenv

ConstructFacade ==
    (\E repoFails \in BOOLEAN : Construct(repoFails))
    /\ UNCHANGED <<now, cacheVars, storeVars, syncVars, raceVars>>

----------------------------------------------------------------------------
(* Application: command synchronisation *)

\* sequences over S without a repeated element
Distinct(q) == \A i, j \in 1 .. Len(q) : i # j => q[i] # q[j]

\* configurations the synchroniser reads: allow-lists of command names, no
\* name twice in a list
AllowLists == {q \in SeqsUpTo(CommandNames, MaxCmds) : Distinct(q)}
SyncConfigs ==
    {Doc("obj", m, 0) : m \in UNION {[S -> AllowLists] : S \in SUBSET GuildIds}}

Call(op, g, name) == [op |-> op, guild |-> g, name |-> name]

\* "for name in allowed_commands: command = get_command(name);
\*  if command: add_command(command, guild=guild)": the guild's commands
RECURSIVE AddAllowed(_, _, _)
AddAllowedIgnoringCatalog(registered, allowed, cat) == registered \o allowed
AddAllowed(registered, allowed, cat) ==
    IF allowed = <<>> THEN registered
    ELSE AddAllowed(IF Head(allowed) \in cat
                      THEN Append(registered, Head(allowed))
                      ELSE registered,
                    Tail(allowed), cat)

\* the same loop: the calls it makes on the tree
RECURSIVE AddCalls(_, _, _)
AddCalls(g, allowed, cat) ==
    IF allowed = <<>> THEN <<>>
    ELSE (IF Head(allowed) \in cat
            THEN <<Call("get_command", g, Head(allowed)),
                   Call("add_command", g, Head(allowed))>>
            ELSE <<Call("get_command", g, Head(allowed))>>)
         \o AddCalls(g, Tail(allowed), cat)

\* "self.bot.tree.clear_commands(guild=guild)"
ClearGuildKeeps(tree, g) == tree
ClearGuild(tree, g) == [tree EXCEPT ![g] = <<>>]

NoSyncRet == [op |-> "none", guild |-> "none", allowed |-> <<>>,
              status |-> "none"]

SyncIdle ==
    /\ catalog = {"ping"}
    /\ treeGuild = [g \in GuildIds |-> <<>>]
    /\ pushed = [g \in GuildIds |-> <<>>]
    /\ pushedGlobal = TRUE
    /\ approved = <<>>
    /\ live = {}
    /\ syncPc = "idle"
    /\ idx = 1
    /\ calls = <<>>
    /\ syncRet = NoSyncRet
    /\ runs = 0

\* after _async_init: the cogs' commands are in the tree as global commands
SyncInit ==
    /\ catalog \in SUBSET CommandNames
    /\ treeGuild = [g \in GuildIds |-> <<>>]
    /\ pushed = [g \in GuildIds |-> <<>>]
    /\ pushedGlobal = TRUE
    /\ approved \in SeqsUpTo(GuildIds, MaxApproved)
    /\ live \in SUBSET GuildIds
    /\ syncPc = "idle"
    /\ idx = 1
    /\ calls = <<>>
    /\ syncRet = NoSyncRet
    /\ runs = 0

\* "guild = self.bot.get_guild(int(guild_id))": the guild, or none
NoGuild == "none"
GetGuildAlwaysResolves(id) == id
GetGuild(id) == IF id \in live THEN id ELSE NoGuild

\* on_ready -> _setup_commands: the run starts
OnReady ==
    /\ syncPc \in {"idle", "done", "failed"}
    /\ runs < MaxRuns
    /\ runs' = runs + 1
    /\ syncPc' = "guilds"
    /\ idx' = 1
    /\ calls' = <<>>
    /\ syncRet' = NoSyncRet
    /\ UNCHANGED <<catalog, treeGuild, pushed, pushedGlobal, approved, live>>
    /\ UNCHANGED <<now, cacheVars, storeVars, envVars, raceVars>>

\* _setup_commands: "if not guild: ... continue"
SkipUnknownGuild ==
    /\ syncPc = "guilds"
    /\ idx <= Len(approved)
    /\ GetGuild(approved[idx]) = NoGuild
    /\ idx' = idx + 1
    /\ UNCHANGED <<catalog, treeGuild, pushed, pushedGlobal, approved, live,
                   syncPc, calls, syncRet, runs>>
    /\ UNCHANGED <<now, cacheVars, storeVars, envVars, raceVars>>

\* _sync_guild_commands(guild); netFails: tree.sync(guild=guild) raises
SyncGuildCommands(g, netFails) ==
    LET r == GetCommandsForGuild(primary, g)
        cleared == ClearGuild(treeGuild, g)
        added == [cleared EXCEPT ![g] = AddAllowed(cleared[g], r.value, catalog)]
    IN
    IF r.status # "ok"
      THEN /\ syncRet' = [op |-> "sync_guild", guild |-> g, allowed |-> <<>>,
                          status |-> r.status]
           /\ syncPc' = "failed"
           /\ UNCHANGED <<treeGuild, pushed, calls, idx>>
    ELSE IF r.value = <<>>
      THEN /\ treeGuild' = cleared
           /\ calls' = calls \o <<Call("clear_commands", g, "none"),
                                  Call("sync", g, "none")>>
           /\ pushed' = IF netFails THEN pushed ELSE [pushed EXCEPT ![g] = <<>>]
           /\ syncRet' = [op |-> "sync_guild", guild |-> g, allowed |-> r.value,
                          status |-> IF netFails THEN "HTTPException" ELSE "ok"]
           /\ syncPc' = IF netFails THEN "failed" ELSE syncPc
           /\ idx' = IF netFails THEN idx ELSE idx + 1
    ELSE   /\ treeGuild' = added
           /\ calls' = calls \o <<Call("clear_commands", g, "none")>>
                             \o AddCalls(g, r.value, catalog)
                             \o <<Call("sync", g, "none")>>
           /\ pushed' = IF netFails THEN pushed
                        ELSE [pushed EXCEPT ![g] = added[g]]
           /\ syncRet' = [op |-> "sync_guild", guild |-> g, allowed |-> r.value,
                          status |-> IF netFails THEN "HTTPException" ELSE "ok"]
           /\ syncPc' = IF netFails THEN "failed" ELSE syncPc
           /\ idx' = IF netFails THEN idx ELSE idx + 1

\* _setup_commands: "await self._sync_guild_commands(guild)"
SyncNextGuild ==
    /\ syncPc = "guilds"
    /\ idx <= Len(approved)
    /\ GetGuild(approved[idx]) # NoGuild
    /\ \E netFails \in BOOLEAN :
          SyncGuildCommands(GetGuild(approved[idx]), netFails)
    /\ UNCHANGED <<catalog, pushedGlobal, approved, live, runs>>
    /\ UNCHANGED <<now, cacheVars, storeVars, envVars, raceVars>>

\* _setup_commands: "clear_commands(guild=None); await tree.sync(guild=None)"
ClearGlobal ==
    /\ syncPc = "guilds"
    /\ idx > Len(approved)
    /\ catalog' = {}
    /\ calls' = calls \o <<Call("clear_commands", "global", "none"),
                           Call("sync", "global", "none")>>
    /\ \E netFails \in BOOLEAN :
          /\ pushedGlobal' = IF netFails THEN pushedGlobal ELSE FALSE
          /\ syncPc' = IF netFails THEN "failed" ELSE "done"
    /\ UNCHANGED <<treeGuild, pushed, approved, live, idx, syncRet, runs>>
    /\ UNCHANGED <<now, cacheVars, storeVars, envVars, raceVars>>

----------------------------------------------------------------------------
(* Specifications *)

\* the repository as constructed over no file, untouched
StoreIdle ==
    /\ primary = DefaultConfig
    /\ pristine = TRUE
    /\ scope = "none"
    /\ backups = EmptyMap
    /\ storeRet = NoStoreRet
    /\ taken = EmptyMap
    /\ clobbered = {}
    /\ storeOps = 0

\* the clock advances (non-decreasing)
Tick ==
    /\ now < MaxTimeIn(scope)
    /\ now' = now + 1
    /\ UNCHANGED <<cacheVars, syncVars, envVars, raceVars>>
    /\ UNCHANGED <<primary, backups, storeRet, taken, clobbered, pristine, scope,
                   storeOps>>

NextCache == CacheGet \/ CacheSet \/ CacheInvalidate \/ Tick

InitCache ==
    now = 0 /\ CacheInit /\ StoreIdle /\ SyncIdle
    /\ EnvIdle /\ RaceIdle

SpecCache == InitCache /\ [][NextCache]_vars

NextTasks ==
    \/ TaskCalls
    \/ TaskAcquires
    \/ TaskBodies
    \/ TaskDeletes
    \/ TaskReleases
    \/ TaskTick

InitTasks ==
    now = 0 /\ CacheInit /\ StoreIdle /\ SyncIdle
    /\ EnvIdle /\ RaceIdle

SpecTasks == InitTasks /\ [][NextTasks]_vars

NextStore ==
    \/ StoreGet
    \/ StoreUpdate
    \/ StoreBackup
    \/ StoreRestoreBackup
    \/ StoreRestoreForeign
    \/ StoreFileRemoved
    \/ Tick

InitStore ==
    now = 0 /\ CacheInit /\ StoreInit /\ SyncIdle
    /\ EnvIdle /\ RaceIdle

SpecStore == InitStore /\ [][NextStore]_vars

\* the repository holding a configuration of allow-lists, untouched; between
\* two synchronisation runs one allow-list can be changed through
\* update_commands_for_guild (scope "sync", then "edited")
StoreConfigured ==
    /\ primary \in SyncConfigs
    /\ pristine = TRUE
    /\ scope = "sync"
    /\ backups = EmptyMap
    /\ storeRet = NoStoreRet
    /\ taken = EmptyMap
    /\ clobbered = {}
    /\ storeOps = 0

NextSync ==
    \/ OnReady
    \/ SkipUnknownGuild
    \/ SyncNextGuild
    \/ ClearGlobal
    \/ StoreUpdate

InitSync ==
    now = 0 /\ CacheInit /\ StoreConfigured /\ SyncInit
    /\ EnvIdle /\ RaceIdle

SpecSync == InitSync /\ [][NextSync]_vars

\* a new repository, about to be updated by two callers at once
StoreRace ==
    /\ primary = DefaultConfig
    /\ pristine = TRUE
    /\ scope = "race"
    /\ backups = EmptyMap
    /\ storeRet = NoStoreRet
    /\ taken = EmptyMap
    /\ clobbered = {}
    /\ storeOps = 0

NextRace == RaceCalls \/ RaceBackups \/ RaceReads \/ RaceOpens \/ RaceDumps

InitRace ==
    now = 0 /\ CacheInit /\ StoreRace /\ SyncIdle /\ EnvIdle /\ RaceIdle

SpecRace == InitRace /\ [][NextRace]_vars

NextEnv == ConstructFacade

InitEnv ==
    now = 0 /\ CacheInit /\ StoreIdle /\ SyncIdle
    /\ EnvInit /\ RaceIdle

SpecEnv == InitEnv /\ [][NextEnv]_vars

----------------------------------------------------------------------------
(* C1: get never returns a stale value.  After get(k), with s the latest  *)
(* set(k, v, ttl) not invalidated since: get returned v iff the clock is   *)
(* before (time of s + ttl); otherwise (and when there is no such set) it  *)
(* returned absent and k is not in the map.                                *)

C1_GetNeverStale ==
    cacheRet.op = "get" =>
        LET k == cacheRet.key
            s == latest[k]
            fresh == s.set /\ cacheRet.at < s.at + s.ttl * TicksPerSecond
        IN  /\ cacheRet.hit <=> fresh
            /\ cacheRet.hit => cacheRet.value = s.value /\ k \in DOMAIN cache
            /\ ~cacheRet.hit => k \notin DOMAIN cache

\* a get that found an expired entry (set with ttl 0 among them) and evicted it
C1_Witness ==
    /\ cacheRet.op = "get"
    /\ ~cacheRet.hit
    /\ latest[cacheRet.key].set
    /\ latest[cacheRet.key].ttl = 0
    /\ cacheRet.at = latest[cacheRet.key].at

----------------------------------------------------------------------------
(* Steps of the repository, for the properties about one call *)

GetStep == storeOps' = storeOps + 1 /\ storeRet'.op = "get"
UpdateStep == storeOps' = storeOps + 1 /\ storeRet'.op = "update"
BackupStep == storeOps' = storeOps + 1 /\ storeRet'.op = "backup"
RestoreStep == storeOps' = storeOps + 1 /\ storeRet'.op = "restore"

AllStrings(cmds) == \A i \in 1 .. Len(cmds) : IsStr(cmds[i])

\* the file parses to an object whose guilds entry, if any, is a mapping
WellFormed(file) == file.kind \in {"obj", "objNoGuilds"}

ConfiguredGuilds(file) == IF file.kind = "obj" THEN DOMAIN file.guilds ELSE {}

----------------------------------------------------------------------------
(* C2: round trip.  update_commands_for_guild(g, cmds) with cmds a list of *)
(* command names, on any well-formed configuration, succeeds, and a        *)
(* get_commands_for_guild(g) that follows it with no update or restore in  *)
(* between returns exactly cmds, same elements in the same order.          *)

C2_RoundTrip ==
    [][ /\ (UpdateStep /\ storeRet'.arg.isList /\ AllStrings(storeRet'.arg.items)
              /\ WellFormed(primary))
           => storeRet'.status = "ok"
        /\ (GetStep /\ storeRet.op = "update" /\ storeRet.status = "ok"
              /\ storeRet'.guild = storeRet.guild)
           => /\ storeRet'.status = "ok"
              /\ storeRet'.value = storeRet.arg.items ]_vars

\* a get returned a two-element list that only an update can have stored
C2_Witness ==
    /\ storeRet.op = "get"
    /\ storeRet.status = "ok"
    /\ storeRet.value = <<"stats", "ping">>
    /\ primary.kind = "obj"
    /\ storeRet.guild \in DOMAIN primary.guilds
    /\ primary.guilds[storeRet.guild] = <<"stats", "ping">>

----------------------------------------------------------------------------
(* C3 as claimed: get_commands_for_guild never fails, whatever the file    *)
(* holds.                                                                  *)

C3_GetNeverFails == storeRet.op = "get" => storeRet.status = "ok"

(* C3 amended: on a file that parses to an object whose guilds entry, if   *)
(* any, is a mapping, get_commands_for_guild(g) returns guilds[g] when g   *)
(* is configured and the empty list otherwise; on a missing or unparseable *)
(* file it raises ConfigurationError, on any other JSON value an           *)
(* AttributeError.                                                         *)

C3_GetOnReadableFile ==
    [][ GetStep =>
          LET g == storeRet'.guild IN
          /\ WellFormed(primary) =>
                /\ storeRet'.status = "ok"
                /\ g \in ConfiguredGuilds(primary)
                     => storeRet'.value = primary.guilds[g]
                /\ g \notin ConfiguredGuilds(primary) => storeRet'.value = <<>>
          /\ primary.kind \in {"missing", "corrupt"}
                => storeRet'.status = "ConfigurationError"
          /\ (~WellFormed(primary) /\ primary.kind \notin {"missing", "corrupt"})
                => storeRet'.status = "AttributeError"
          /\ primary' = primary /\ backups' = backups ]_vars

\* a get for a guild that is not configured, in a file that configures another
C3_Witness ==
    /\ storeRet.op = "get"
    /\ storeRet.status = "ok"
    /\ storeRet.value = <<>>
    /\ primary.kind = "obj"
    /\ storeRet.guild \notin DOMAIN primary.guilds
    /\ DOMAIN primary.guilds # {}

----------------------------------------------------------------------------
(* C4 as claimed: every update that completes adds exactly one backup file *)
(* to the backup directory.                                                *)

C4_OneNewBackupPerUpdate ==
    [][ (UpdateStep /\ storeRet'.status = "ok" /\ ~storeRet'.ioFails)
          => Cardinality(DOMAIN backups') = Cardinality(DOMAIN backups) + 1 ]_vars

(* C4 amended: every update that passes validation and whose backup step   *)
(* succeeds writes the backup file named by the current second, with the   *)
(* configuration as it was immediately before that update; the file is new *)
(* unless a backup was already written in the same second, which it then   *)
(* overwrites.  An update whose backup step fails, or that is rejected,    *)
(* leaves the backup directory as it was.                                  *)

C4_BackupIsPreUpdateSnapshot ==
    [][ UpdateStep =>
          LET ts == Timestamp(now)
              wrote == /\ storeRet'.arg.isList
                       /\ ~storeRet'.ioFails
                       /\ primary.kind \notin {"missing", "corrupt"}
          IN  /\ wrote =>
                   /\ DOMAIN backups' = DOMAIN backups \cup {ts}
                   /\ backups'[ts] = primary
                   /\ \A s \in DOMAIN backups \ {ts} : backups'[s] = backups[s]
              /\ ~wrote => backups' = backups ]_vars

\* two updates of one guild in different seconds: two backup files, the second
\* one holding the state after the first update
C4_Witness ==
    /\ storeRet.op = "update"
    /\ storeRet.status = "ok"
    /\ storeOps = 2
    /\ DOMAIN backups = {0, 1}
    /\ backups[0] = DefaultConfig
    /\ backups[1].kind = "obj"
    /\ DOMAIN backups[1].guilds = {storeRet.guild}
    /\ backups[1].guilds[storeRet.guild] = <<"ping">>
    /\ primary.guilds[storeRet.guild] = <<>>

----------------------------------------------------------------------------
(* C5 as claimed: restore of the file of an earlier backup() returns true  *)
(* and leaves the primary configuration as it was when backup() was called *)
(* (repository constructed over no file).                                  *)

C5_RestoreGivesBackupTimeConfig ==
    (pristine /\ storeRet.op = "restore" /\ storeRet.path \in DOMAIN taken)
        => /\ storeRet.status = "true"
           /\ primary = taken[storeRet.path]

(* C5 amended: if backup() wrote its file while the configuration had a    *)
(* guilds mapping, and no update ran in the same clock second after it (an *)
(* update in that second overwrites the file), then restore of that file   *)
(* returns true and leaves the primary configuration exactly as it was     *)
(* when backup() was called.                                               *)

C5_RestoreOfUnclobberedBackup ==
    (/\ storeRet.op = "restore"
     /\ storeRet.path \in DOMAIN taken
     /\ storeRet.path \notin clobbered
     /\ taken[storeRet.path].kind = "obj")
        => /\ storeRet.status = "true"
           /\ primary = taken[storeRet.path]

\* backup(), then an update in a later second, then restore puts back the
\* configuration of backup time, which differs from the updated one
C5_Witness ==
    /\ storeRet.op = "restore"
    /\ storeRet.status = "true"
    /\ storeRet.path \in DOMAIN taken
    /\ storeRet.path \notin clobbered
    /\ primary = taken[storeRet.path]
    /\ \E s \in DOMAIN backups : s > storeRet.path /\ backups[s] = primary

----------------------------------------------------------------------------
(* C6: restore of a location that exists never raises: it returns true     *)
(* when the content is an object with a guilds mapping and false for any   *)
(* other content.                                                          *)

C6_RestoreNeverRaises ==
    (storeRet.op = "restore" /\ storeRet.content.kind # "missing")
        => /\ storeRet.status \in {"true", "false"}
           /\ storeRet.status = "true" <=> storeRet.content.kind = "obj"

----------------------------------------------------------------------------
(* C7: restore of a file that lacks a guilds mapping returns false, leaves *)
(* the primary configuration as it was and creates no backup.              *)

C7_FailedRestoreChangesNothing ==
    [][ (RestoreStep /\ storeRet'.content.kind \notin {"missing", "obj"})
          => /\ storeRet'.status = "false"
             /\ primary' = primary
             /\ backups' = backups ]_vars

----------------------------------------------------------------------------
(* C8: backup() never raises, and an update whose backup step fails while  *)
(* the primary file is readable and writable still completes and writes    *)
(* guilds[g] = cmds.                                                       *)

C8_BackupFailureDoesNotBlock ==
    [][ /\ BackupStep => storeRet'.status = "ok"
        /\ (UpdateStep /\ storeRet'.ioFails /\ storeRet'.arg.isList
              /\ WellFormed(primary) /\ Encodable(storeRet'.arg.items))
           => /\ storeRet'.status = "ok"
              /\ primary'.kind = "obj"
              /\ storeRet'.guild \in DOMAIN primary'.guilds
              /\ primary'.guilds[storeRet'.guild] = storeRet'.arg.items
              /\ backups' = backups ]_vars

\* an update went through although its backup could not be written
C8_Witness ==
    /\ storeRet.op = "update"
    /\ storeRet.ioFails
    /\ storeRet.status = "ok"
    /\ backups = EmptyMap
    /\ primary.kind = "obj"
    /\ storeRet.guild \in DOMAIN primary.guilds
    /\ primary.guilds[storeRet.guild] = storeRet.arg.items
    /\ storeRet.arg.items # <<>>

----------------------------------------------------------------------------
(* C9: an update is accepted only when commands is a list of strings       *)
(* a list with a non-string element is rejected like a non-list.           *)

C9_OnlyStringListsAccepted ==
    storeRet.op = "update" =>
        /\ storeRet.status = "ok"
             => storeRet.arg.isList /\ AllStrings(storeRet.arg.items)
        /\ ~(storeRet.arg.isList /\ AllStrings(storeRet.arg.items))
             => storeRet.status = "ConfigurationError"

----------------------------------------------------------------------------
(* C10: synchronising one guild whose allow-list is not empty leaves the   *)
(* guild's command set equal to the allow-list names that the global       *)
(* catalog defines, in allow-list order, whatever was registered for the   *)
(* guild before; names the catalog lacks are skipped without an error, and *)
(* the set is what the sync pushes to the registry.                        *)

\* a step of _sync_guild_commands (and not a call on the repository)
SyncGuildStep ==
    /\ syncPc = "guilds" /\ idx <= Len(approved)
    /\ GetGuild(approved[idx]) # NoGuild
    /\ storeOps' = storeOps

C10_GuildGetsDefinedAllowList ==
    [][ (SyncGuildStep /\ syncRet'.allowed # <<>>)
          => LET g == approved[idx]
                 Defined(n) == n \in catalog
             IN  /\ syncRet'.guild = g
                 /\ syncRet'.allowed = primary.guilds[g]
                 /\ syncRet'.status \in {"ok", "HTTPException"}
                 /\ treeGuild'[g] = SelectSeq(syncRet'.allowed, Defined)
                 /\ syncRet'.status = "ok" => pushed'[g] = treeGuild'[g] ]_vars

\* allow-list [ping, stats], catalog {ping}: only ping is registered and pushed
C10_Witness ==
    /\ syncRet.op = "sync_guild"
    /\ syncRet.status = "ok"
    /\ syncRet.allowed = <<"ping", "stats">>
    /\ catalog = {"ping"}
    /\ treeGuild[syncRet.guild] = <<"ping">>
    /\ pushed[syncRet.guild] = <<"ping">>

----------------------------------------------------------------------------
(* C11: synchronising a guild that has no entry in guilds, or whose       *)
(* allow-list is empty, clears the guild's commands and issues exactly one *)
(* clear and one sync for the guild (a sync of zero commands), with no     *)
(* lookup in the catalog and no add for that guild.                        *)

C11_EmptyAllowListClears ==
    [][ (SyncGuildStep
           /\ (approved[idx] \notin DOMAIN primary.guilds
                  \/ primary.guilds[approved[idx]] = <<>>))
          => LET g == approved[idx] IN
             /\ syncRet'.guild = g
             /\ syncRet'.status \in {"ok", "HTTPException"}
             /\ treeGuild'[g] = <<>>
             /\ calls' = calls \o <<Call("clear_commands", g, "none"),
                                    Call("sync", g, "none")>>
             /\ syncRet'.status = "ok" => pushed'[g] = <<>> ]_vars

\* a guild that had ping registered and pushed, then lost its allow-list, is
\* synchronised: its commands are gone from the tree and from the registry
C11_Witness ==
    /\ syncRet.op = "sync_guild"
    /\ syncRet.status = "ok"
    /\ syncRet.allowed = <<>>
    /\ storeRet.op = "update"
    /\ storeRet.guild = syncRet.guild
    /\ storeRet.arg.items = <<>>
    /\ runs = 2
    /\ calls # <<>>
    /\ calls[Len(calls)] = Call("sync", syncRet.guild, "none")
    /\ treeGuild[syncRet.guild] = <<>>
    /\ pushed[syncRet.guild] = <<>>

----------------------------------------------------------------------------
(* C12: in every synchronisation run the global command set is cleared and *)
(* that clearing is pushed exactly once, after every approved guild has    *)
(* been processed; when the run completes no command is registered         *)
(* globally and each guild holds only commands its allow-list names.       *)

\* the step that ends a run of _setup_commands
RunEnds == syncPc = "guilds" /\ syncPc' \in {"done", "failed"}

GlobalCalls == <<Call("clear_commands", "global", "none"),
                 Call("sync", "global", "none")>>

IsGlobalCall(c) == c.guild = "global"

\* the allow-list of g in the configuration file
AllowList(file, g) == IF g \in DOMAIN file.guilds THEN file.guilds[g] ELSE <<>>

C12_GlobalClearedOncePerRun ==
    [][ RunEnds =>
          /\ idx' > Len(approved)
          /\ SelectSeq(calls', IsGlobalCall) = GlobalCalls
          /\ Len(calls') >= 2
          /\ SubSeq(calls', Len(calls') - 1, Len(calls')) = GlobalCalls
          /\ syncPc' = "done" =>
                /\ catalog' = {}
                /\ ~pushedGlobal'
                /\ \A g \in GuildIds : \A i \in 1 .. Len(treeGuild'[g]) :
                      \E j \in 1 .. Len(AllowList(primary', g)) :
                         AllowList(primary', g)[j] = treeGuild'[g][i] ]_vars

----------------------------------------------------------------------------
(* C13: when the registry call fails while one approved guild is being     *)
(* synchronised, the run is not aborted: the loop moves on to the next     *)
(* approved guild, from where the later guilds and the final global clear  *)
(* and sync are still performed.                                           *)

C13_GuildFailureTolerated ==
    [][ (SyncGuildStep /\ syncRet'.status = "HTTPException")
          => /\ syncPc' = "guilds"
             /\ idx' = idx + 1 ]_vars

----------------------------------------------------------------------------
(* C19: an approved guild id that resolves to no live guild is skipped     *)
(* without error: the step issues no call on the tree and the loop goes on *)
(* with the next id; no call of a run names an unresolved guild; the      *)
(* resolvable approved guilds are synchronised in list order; and a run    *)
(* that completes has synchronised every one of them and then done the     *)
(* global clear and sync.                                                  *)

\* the step of _setup_commands over an id get_guild does not resolve
SkipStep ==
    /\ syncPc = "guilds" /\ idx <= Len(approved)
    /\ approved[idx] \notin live
    /\ idx' # idx

IsSyncCall(c) == c.op = "sync"
IsLive(g) == g \in live

\* the guilds (or "global") that tree.sync was called for, in call order
SyncedGuilds(log) ==
    LET q == SelectSeq(log, IsSyncCall) IN [i \in 1 .. Len(q) |-> q[i].guild]

C19_UnknownGuildSkipped ==
    [][ /\ SkipStep => /\ calls' = calls
                       /\ syncPc' = "guilds"
                       /\ idx' = idx + 1
                       /\ UNCHANGED <<treeGuild, pushed, catalog, syncRet>>
        /\ \A i \in 1 .. Len(calls') :
              calls'[i].guild \in live \cup {"global"}
        /\ LET synced == SyncedGuilds(calls')
                resolved == SelectSeq(approved, IsLive) \o <<"global">>
            IN  /\ Len(synced) <= Len(resolved)
                /\ synced = SubSeq(resolved, 1, Len(synced))
        /\ (RunEnds /\ syncPc' = "done")
              => SyncedGuilds(calls')
                   = SelectSeq(approved, IsLive) \o <<"global">> ]_vars

\* a completed run over [111, 222] where only 222 resolves
C19_Witness ==
    /\ syncPc = "done"
    /\ approved = <<"111", "222">>
    /\ live = {"222"}
    /\ SyncedGuilds(calls) = <<"222", "global">>

----------------------------------------------------------------------------
(* C20: synchronisation is idempotent across runs.  Once a run has         *)
(* completed, with the allow-lists unchanged since, synchronising a guild  *)
(* in a later run leaves the guild with the command set the completed run  *)
(* gave it.                                                                *)

C20_SecondRunSameSets ==
    [][ (SyncGuildStep /\ runs >= 2 /\ ~pushedGlobal /\ scope = "sync")
          => treeGuild'[approved[idx]] = treeGuild[approved[idx]] ]_vars

----------------------------------------------------------------------------
(* C14: cache operations of concurrent tasks are serialised by the one     *)
(* lock.  At most one task is inside an operation; outside the window      *)
(* between the expiry check and the deletion of a get, the map is the one  *)
(* the operations give when applied whole, one after the other, and every  *)
(* operation returns what it returns in that order; between the expiry     *)
(* check and the deletion the checked entry is still in the map, expired;  *)
(* and a get returns the value of the latest set on its key that has taken *)
(* effect and was not invalidated, unless that set has expired.            *)

InLock(t) == tasks[t].pc \in {"body", "delete", "exit"}

C14_Serialized ==
    /\ \A t \in Tasks : InLock(t) => lock = t
    /\ (\A t \in Tasks : tasks[t].pc # "delete") => cache = serial
    /\ \A t \in Tasks :
          /\ tasks[t].pc = "exit"
                => tasks[t].hit = tasks[t].expHit /\ tasks[t].out = tasks[t].expOut
          /\ tasks[t].pc = "delete"
                => /\ tasks[t].key \in DOMAIN cache
                   /\ Expired(cache[tasks[t].key], tasks[t].at)
                   /\ DelKey(cache, tasks[t].key) = serial
          /\ (tasks[t].pc = "exit" /\ tasks[t].op = "get")
                => LET s == latest[tasks[t].key]
                       fresh == s.set /\ tasks[t].at < s.at + Timedelta(s.ttl)
                   IN  /\ tasks[t].hit <=> fresh
                       /\ tasks[t].hit => tasks[t].out = s.value

\* a get has found its entry expired and is about to delete it while the
\* other task waits for the lock with a set on the same key
C14_Witness ==
    /\ tasks["t1"].pc = "delete"
    /\ tasks["t2"].pc = "wait"
    /\ tasks["t2"].op = "set"
    /\ tasks["t2"].key = tasks["t1"].key
    /\ lock = "t1"

----------------------------------------------------------------------------
(* C18: invalidate(k) removes exactly the entry of k.  After it k is not   *)
(* in the map, every other key is in the map exactly when it was before,   *)
(* with the same value and expiry; when k was absent the map is unchanged  *)
(* and the call returns normally all the same.                             *)

InvalidateStep == cacheOps' = cacheOps + 1 /\ cacheRet'.op = "invalidate"

C18_InvalidateRemovesOnlyKey ==
    [][ InvalidateStep
          => LET k == cacheRet'.key IN
             /\ k \notin DOMAIN cache'
             /\ DOMAIN cache' = DOMAIN cache \ {k}
             /\ \A x \in DOMAIN cache' : cache'[x] = cache[x]
             /\ k \notin DOMAIN cache => cache' = cache ]_vars

\* k1 was invalidated while k2 stays cached with its value and expiry
C18_Witness ==
    /\ cacheRet.op = "invalidate"
    /\ cacheRet.key = "k1"
    /\ ~latest["k1"].set
    /\ DOMAIN cache = {"k2"}
    /\ latest["k2"].set
    /\ cache["k2"] = [value |-> latest["k2"].value,
                      expires |-> ExpiresAt(latest["k2"].at, latest["k2"].ttl)]

----------------------------------------------------------------------------
(* C17: a repository constructed over no backing file keeps, through every *)
(* sequence of update, backup and restore calls (successful or failed,     *)
(* whatever the backup files contain), a primary file that parses to an    *)
(* object with a top-level guilds mapping.                                 *)

C17_PrimaryKeepsGuilds == pristine => primary.kind = "obj"

----------------------------------------------------------------------------
(* C16: constructing the configuration facade fails with the missing-      *)
(* variables error exactly when at least one of APPROVED_GUILDS, TOKEN, DB *)
(* is absent after the .env file has been loaded, and the error names      *)
(* every absent variable.                                                  *)

\* the required variables that neither the environment nor .env sets
Absent == {v \in VarNames : environ[v] = Unset /\ dotenv[v] = Unset}

\* the names in a sequence
Range(q) == {q[i] : i \in 1 .. Len(q)}

C16_FailsIffAbsent ==
    facade.status # "none"
      => /\ facade.status = "MissingVariables" <=> Absent # {}
         /\ facade.status = "MissingVariables" => Range(facade.missing) = Absent

(* C16, as the code has it: the error is raised exactly when at least one  *)
(* required variable is absent or set to the empty string, and it names    *)
(* every such variable once, in the order APPROVED_GUILDS, TOKEN, DB.      *)

\* the required variables with no value: absent, or set to ""
Valueless == {v \in VarNames : NotGetenv(environ, v)}

C16_FailsIffValueless ==
    facade.status # "none"
      => /\ facade.status = "MissingVariables" <=> Valueless # {}
         /\ Range(facade.missing) = Valueless
         /\ \E q \in SeqsUpTo(1 .. Len(RequiredVars), Len(RequiredVars)) :
               /\ \A i \in 1 .. Len(q) - 1 : q[i] < q[i + 1]
               /\ facade.missing = [i \in 1 .. Len(q) |-> RequiredVars[q[i]]]

\* TOKEN is absent and DB is set to "": the error names both
C16_Witness ==
    /\ facade.status = "MissingVariables"
    /\ facade.missing = <<"TOKEN", "DB">>
    /\ environ["TOKEN"] = Unset
    /\ environ["DB"] = ""
    /\ environ["APPROVED_GUILDS"] = "value"

----------------------------------------------------------------------------
(* C15: lost update.  update_commands_for_guild reads the whole file,      *)
(* changes its copy and rewrites the whole file with no lock, so when two  *)
(* concurrent calls for different guilds have both returned successfully   *)
(* and the file parses, the file is the copy of the caller that wrote      *)
(* last: it has that caller's change, and it has the other caller's change *)
(* only if the last writer read the file after the other had written it;   *)
(* otherwise the other guild's update is lost.                             *)

BothUpdated ==
    /\ \A u \in Updaters : updaters[u].pc = "done" /\ updaters[u].status = "ok"
    /\ updaters["u1"].guild # updaters["u2"].guild

C15_LastWriterWins ==
    (BothUpdated /\ primary.kind = "obj")
      => LET w == updaters[lastWriter]
             o == updaters[Other(lastWriter)]
         IN  /\ primary = w.config
             /\ AllowList(primary, w.guild) = w.cmds
             /\ w.sawOther => AllowList(primary, o.guild) = o.cmds
             /\ ~w.sawOther => o.guild \notin DOMAIN primary.guilds

\* both calls returned successfully, u1 set [ping] for 111 and u2 wrote
\* last: the file has no entry for 111
C15_Witness ==
    /\ BothUpdated
    /\ updaters["u1"].guild = "111"
    /\ updaters["u1"].cmds = <<"ping">>
    /\ lastWriter = "u2"
    /\ primary.kind = "obj"
    /\ DOMAIN primary.guilds = {"222"}

----------------------------------------------------------------------------
(* C21: frame of a successful update_commands_for_guild(g, cmds).  The     *)
(* file held an object before; after the call it is that object with       *)
(* guilds[g] = cmds: every other guild is configured as before with the    *)
(* same command list, no other guild appears, and the other top-level keys *)
(* are the ones the file had.                                              *)

C21_UpdateFrame ==
    [][ (UpdateStep /\ storeRet'.status = "ok")
          => LET g == storeRet'.guild IN
             /\ WellFormed(primary)
             /\ primary'.kind = "obj"
             /\ primary'.extra = primary.extra
             /\ DOMAIN primary'.guilds = ConfiguredGuilds(primary) \cup {g}
             /\ \A x \in ConfiguredGuilds(primary) \ {g} :
                   primary'.guilds[x] = primary.guilds[x]
             /\ primary'.guilds[g] = storeRet'.arg.items ]_vars

\* 111 was set to [stats] in a file that has another top-level key and
\* [ping] for 222: both are still there
C21_Witness ==
    /\ storeRet.op = "update"
    /\ storeRet.status = "ok"
    /\ storeRet.guild = "111"
    /\ storeRet.arg.items = <<"stats">>
    /\ primary.kind = "obj"
    /\ primary.extra = 1
    /\ DOMAIN primary.guilds = {"111", "222"}
    /\ primary.guilds["222"] = <<"ping">>
    /\ primary.guilds["111"] = <<"stats">>

====
